---- MODULE Spec2Model ----
(***************************************************************************)
(* Model of the two adapters of the repository:                            *)
(*   src/ibm_text_analysis.py  class IBM_Watson                            *)
(*   src/text_to_speech.py     create_speech_from_text                     *)
(* One caller runs one operation at a time (the code is synchronous); the  *)
(* vendor services and SDKs are the environment and their answers are      *)
(* chosen with \E.                                                         *)
(***************************************************************************)
EXTENDS Integers, Sequences, FiniteSets, TLC

VARIABLES
  pc,            \* position of the caller in the running operation
  op,            \* name of the operation being run / last run
  exc,           \* exception the operation ended with ("" = none)
  result,        \* value the operation returned (Python value, by name)
  token,         \* IBM_Watson.token
  entryToken,    \* IBM_Watson.token as the running operation found it
  authenticator, \* IBM_Watson.authenticator
  service,       \* local `service` of the get_*_service methods
  response,      \* local `response` of get_speech_to_text_result
  tokenSerial,   \* number of tokens the IAM service has issued
  outbound,      \* outbound calls made by the running operation, in order
  configRead,    \* configuration names the running operation passed to config()
  configBound,   \* does the name `config` resolve in text_to_speech.py
  env,           \* what the environment offers to the running Azure call
  lists,         \* the list objects create_speech_from_text allocates
  cell,          \* the closure variable word_boundaries: which list it names
  ret,           \* the list object handed to the caller (0 = none)
  connected,     \* is the callback connected to a live synthesizer
  delivered,     \* events the SDK has delivered to the callback, in order
  late           \* number of events delivered after speak_ssml returned

vars == <<pc, op, exc, result, token, entryToken, authenticator, service,
          response,
          tokenSerial, outbound, configRead, configBound, env, lists, cell,
          ret, connected, delivered, late>>

watsonVars == <<token, authenticator, service, response, tokenSerial>>
azureVars == <<env, lists, cell, ret, connected, delivered, late>>

----------------------------------------------------------------------------
(* Bounds *)

MaxEvents == 2      \* events the SDK delivers in one synthesis
MaxOffset == 1      \* text offsets range over 0..MaxOffset
MaxTokens == 3      \* tokens the IAM service issues in one behaviour
MaxBody == 2        \* tokens in a response body

----------------------------------------------------------------------------
(* Python values *)

PyNone == "None"

NoToken == [apikey |-> "", serial |-> 0]
NoAuthenticator == [bearer_token |-> NoToken]
NoService == [client |-> "", authenticator |-> NoAuthenticator, url |-> ""]
NoResponse == [status_code |-> 0, body |-> <<>>]

Idle == {"idle", "returned", "raised"}

NLUOps == {"get_text_concept", "get_text_emotion", "get_text_semantic_roles",
           "get_text_sentiment", "get_text_tone"}

\* the Features argument each operation passes to analyze()
FeatureOf(o) ==
  CASE o = "get_text_concept" -> "concepts"
    [] o = "get_text_emotion" -> "emotion"
    [] o = "get_text_semantic_roles" -> "semantic_roles"
    [] o = "get_text_sentiment" -> "sentiment"
    [] o = "get_text_tone" -> "classifications"

\* the configuration name holding the API key of the operation's service
KeyNameOf(o) ==
  CASE o \in NLUOps -> "NLP_KEY"
    [] o = "get_speech_to_text_result" -> "STT_API_KEY"
    [] o = "get_text_to_speech_service" -> "TTS_API_KE"
    [] OTHER -> ""

----------------------------------------------------------------------------
(* Environment of the Watson adapter *)

Statuses == {200, 201, 404, 500}

JsonTokens == {"null", "true", "{", "}", "x"}

Bodies == UNION {[1..n -> JsonTokens] : n \in 0..MaxBody}

\* requests.Response.json(): the Python value of the body, or a decode error
ParseJson(body) ==
  CASE body = <<"null">> -> [ok |-> TRUE, val |-> PyNone]
    [] body = <<"true">> -> [ok |-> TRUE, val |-> "True"]
    [] body = <<"{", "}">> -> [ok |-> TRUE, val |-> "dict"]
    [] OTHER -> [ok |-> FALSE, val |-> ""]

----------------------------------------------------------------------------
(* Shared steps *)

Raise(e) ==
  /\ pc' = "raised"
  /\ exc' = e

AzureKeys == {"SPEECH_KEY", "SERVICE_REGION"}

NoLists == [i \in 1..3 |-> <<>>]

NoEnv == [keys |-> {}, sdk |-> FALSE]

\* entry of any public operation: a fresh frame, the locals and the result of
\* the previous operation are gone
Enter(o, first) ==
  /\ pc \in Idle
  /\ pc' = first
  /\ op' = o
  /\ entryToken' = token
  /\ exc' = ""
  /\ result' = ""
  /\ outbound' = <<>>
  /\ configRead' = {}
  /\ service' = NoService
  /\ response' = NoResponse
  /\ lists' = NoLists
  /\ cell' = 1
  /\ ret' = 0
  /\ connected' = FALSE
  /\ delivered' = <<>>
  /\ late' = 0

\* authenticate() that keeps a token it already holds instead of fetching one
authenticate_cached(apikey) ==
  IF token = NoToken
    THEN /\ tokenSerial' = tokenSerial + 1
         /\ token' = [apikey |-> apikey, serial |-> tokenSerial + 1]
         /\ authenticator' = [bearer_token |-> token']
         /\ outbound' = Append(outbound,
                          [kind |-> "token", target |-> apikey,
                           token |-> token'])
    ELSE UNCHANGED <<token, authenticator, tokenSerial, outbound>>

\* IBM_Watson.authenticate(apikey) when the IAM service answers
authenticate(apikey) ==
  /\ tokenSerial' = tokenSerial + 1
  /\ token' = [apikey |-> apikey, serial |-> tokenSerial + 1]
  /\ authenticator' = [bearer_token |-> token']
  /\ outbound' = Append(outbound,
                   [kind |-> "token", target |-> apikey, token |-> token'])

\* IBM_Watson.authenticate(apikey) when get_token() raises: nothing is stored
authenticateFails(apikey) ==
  /\ outbound' = Append(outbound,
                   [kind |-> "token", target |-> apikey, token |-> NoToken])
  /\ UNCHANGED <<token, authenticator, tokenSerial>>
  /\ Raise("ApiException")

\* self.authenticate(config(name)): config() first, then the token fetch
AuthenticateWith(name, next) ==
  /\ configRead' = configRead \cup {name}
  /\ \E defined \in BOOLEAN, granted \in BOOLEAN :
       IF ~defined
         THEN /\ Raise("UndefinedValueError")
              /\ UNCHANGED <<token, authenticator, tokenSerial, outbound>>
         ELSE IF ~granted
           THEN authenticateFails(name)
           ELSE /\ authenticate(name)
                /\ pc' = next
                /\ exc' = exc

----------------------------------------------------------------------------
(* IBM_Watson: the five analysis operations *)

CallNLU(o) ==
  /\ tokenSerial < MaxTokens
  /\ Enter(o, "nls_39")
  /\ env' = NoEnv
  /\ UNCHANGED <<token, authenticator, tokenSerial, configBound>>

get_text_concept == CallNLU("get_text_concept")
get_text_emotion == CallNLU("get_text_emotion")
get_text_semantic_roles == CallNLU("get_text_semantic_roles")
get_text_sentiment == CallNLU("get_text_sentiment")
get_text_tone == CallNLU("get_text_tone")

\* get_natural_language_service, line 39
nls_authenticate ==
  /\ pc = "nls_39"
  /\ AuthenticateWith("NLP_KEY", "nls_40")
  /\ UNCHANGED <<op, entryToken, result, service, response, configBound,
                 azureVars>>

\* get_natural_language_service, lines 40-45
nls_build ==
  /\ pc = "nls_40"
  /\ configRead' = configRead \cup {"NLP_BASE_URL"}
  /\ \E defined \in BOOLEAN :
       IF defined
         THEN /\ service' = [client |-> "NaturalLanguageUnderstandingV1",
                             authenticator |-> authenticator,
                             url |-> "NLP_BASE_URL"]
              /\ pc' = "analyze"
              /\ exc' = exc
         ELSE /\ Raise("UndefinedValueError")
              /\ service' = service
  /\ UNCHANGED <<op, entryToken, result, token, authenticator, response,
                 tokenSerial,
                 outbound, configBound, azureVars>>

\* natural_language_service.analyze(...).get_result(); json.dumps(response)
analyze ==
  /\ pc = "analyze"
  /\ outbound' = Append(outbound,
                   [kind |-> "request", target |-> FeatureOf(op),
                    token |-> service.authenticator.bearer_token])
  /\ \E answered \in BOOLEAN :
       IF answered
         THEN /\ result' = "json"
              /\ pc' = "returned"
              /\ exc' = exc
         ELSE /\ Raise("ApiException")
              /\ result' = result
  /\ UNCHANGED <<op, entryToken, watsonVars, configRead, configBound,
                 azureVars>>

----------------------------------------------------------------------------
(* IBM_Watson.get_speech_to_text_result *)

get_speech_to_text_result ==
  /\ tokenSerial < MaxTokens
  /\ Enter("get_speech_to_text_result", "stt_60")
  /\ env' = NoEnv
  /\ UNCHANGED <<token, authenticator, tokenSerial, configBound>>

\* line 60
stt_authenticate ==
  /\ pc = "stt_60"
  /\ AuthenticateWith("STT_API_KEY", "stt_61")
  /\ UNCHANGED <<op, entryToken, result, service, response, configBound,
                 azureVars>>

\* lines 61-69: transcript = None, headers, open(), config("URL"), post
stt_post ==
  /\ pc = "stt_61"
  /\ \E opened \in BOOLEAN, defined \in BOOLEAN, answered \in BOOLEAN,
        status \in Statuses, body \in Bodies :
       IF ~opened
         THEN /\ Raise("FileNotFoundError")
              /\ UNCHANGED <<result, response, outbound, configRead>>
         ELSE
           /\ configRead' = configRead \cup {"URL"}
           /\ IF ~defined
                THEN /\ Raise("UndefinedValueError")
                     /\ UNCHANGED <<result, response, outbound>>
                ELSE
                  /\ outbound' = Append(outbound,
                                   [kind |-> "post", target |-> "URL",
                                    token |-> token])
                  /\ IF ~answered
                       THEN /\ Raise("ConnectionError")
                            /\ UNCHANGED <<result, response>>
                       ELSE /\ response' = [status_code |-> status,
                                            body |-> body]
                            /\ result' = PyNone
                            /\ pc' = "stt_70"
                            /\ exc' = exc
  /\ UNCHANGED <<op, entryToken, token, authenticator, service, tokenSerial,
                 configBound,
                 azureVars>>

\* lines 70-72 with any 2xx status taken as success
stt_return_any_2xx ==
  /\ pc = "stt_70"
  /\ IF response.status_code \in {200, 201}
       THEN IF ParseJson(response.body).ok
              THEN /\ result' = ParseJson(response.body).val
                   /\ pc' = "returned"
                   /\ exc' = exc
              ELSE /\ Raise("JSONDecodeError")
                   /\ result' = result
       ELSE /\ result' = result
            /\ pc' = "returned"
            /\ exc' = exc
  /\ UNCHANGED <<op, entryToken, watsonVars, outbound, configRead, configBound,
                 azureVars>>

\* lines 70-72 with the POST repeated after a non-200 response
stt_return_retry ==
  /\ pc = "stt_70"
  /\ IF response.status_code = 200
       THEN IF ParseJson(response.body).ok
              THEN /\ result' = ParseJson(response.body).val
                   /\ pc' = "returned"
                   /\ exc' = exc
              ELSE /\ Raise("JSONDecodeError")
                   /\ result' = result
       ELSE /\ result' = result
            /\ pc' = IF Len(outbound) < 3 THEN "stt_61" ELSE "returned"
            /\ exc' = exc
  /\ UNCHANGED <<op, entryToken, watsonVars, outbound, configRead, configBound,
                 azureVars>>

\* lines 70-72
stt_return ==
  /\ pc = "stt_70"
  /\ IF response.status_code = 200
       THEN IF ParseJson(response.body).ok
              THEN /\ result' = ParseJson(response.body).val
                   /\ pc' = "returned"
                   /\ exc' = exc
              ELSE /\ Raise("JSONDecodeError")
                   /\ result' = result
       ELSE /\ result' = result
            /\ pc' = "returned"
            /\ exc' = exc
  /\ UNCHANGED <<op, entryToken, watsonVars, outbound, configRead, configBound,
                 azureVars>>

----------------------------------------------------------------------------
(* IBM_Watson.get_text_to_speech_service *)

get_text_to_speech_service ==
  /\ tokenSerial < MaxTokens
  /\ Enter("get_text_to_speech_service", "tts_81")
  /\ env' = NoEnv
  /\ UNCHANGED <<token, authenticator, tokenSerial, configBound>>

\* line 81 reading the key under its untruncated name
tts_authenticate_renamed ==
  /\ pc = "tts_81"
  /\ AuthenticateWith("TTS_API_KEY", "tts_82")
  /\ UNCHANGED <<op, entryToken, result, service, response, configBound,
                 azureVars>>

\* line 81
tts_authenticate ==
  /\ pc = "tts_81"
  /\ AuthenticateWith("TTS_API_KE", "tts_82")
  /\ UNCHANGED <<op, entryToken, result, service, response, configBound,
                 azureVars>>

\* lines 82-84
tts_build ==
  /\ pc = "tts_82"
  /\ configRead' = configRead \cup {"TTS_BASE_URL"}
  /\ outbound' = Append(outbound,
                   [kind |-> "client", target |-> "TextToSpeechV1",
                    token |-> authenticator.bearer_token])
  /\ \E defined \in BOOLEAN :
       IF defined
         THEN /\ service' = [client |-> "TextToSpeechV1",
                             authenticator |-> authenticator,
                             url |-> "TTS_BASE_URL"]
              /\ result' = "TextToSpeechV1"
              /\ pc' = "returned"
              /\ exc' = exc
         ELSE /\ Raise("UndefinedValueError")
              /\ UNCHANGED <<service, result>>
  /\ UNCHANGED <<op, entryToken, token, authenticator, response, tokenSerial,
                 configBound, azureVars>>

WatsonNext ==
  \/ get_text_concept
  \/ get_text_emotion
  \/ get_text_semantic_roles
  \/ get_text_sentiment
  \/ get_text_tone
  \/ nls_authenticate
  \/ nls_build
  \/ analyze
  \/ get_speech_to_text_result
  \/ stt_authenticate
  \/ stt_post
  \/ stt_return
  \/ get_text_to_speech_service
  \/ tts_authenticate
  \/ tts_build

----------------------------------------------------------------------------
(* create_speech_from_text: events, records, filter and sort *)

TickRounding == 5000
TicksPerUnit == 10000

Texts == {<<"a">>, <<"b">>, <<"a", " ", "b">>}

AudioTicks == {0, 10000}

\* the word-boundary events the SDK may deliver
Events ==
  {[audio_offset |-> t, duration |-> 500000, text |-> w, text_offset |-> k,
    word_length |-> Len(w)] : t \in AudioTicks, w \in Texts, k \in 0..MaxOffset}

\* the dictionary the callback builds, lines 28-33; the true division of
\* line 29 is kept exact as a fraction
WordBoundary(evt) ==
  [audio_offset |-> [num |-> evt.audio_offset + TickRounding,
                     den |-> TicksPerUnit],
   duration |-> evt.duration,
   text |-> evt.text,
   text_offset |-> evt.text_offset,
   word_length |-> evt.word_length]

\* " " in item['text']
HasSpace(text) == \E i \in DOMAIN text : text[i] = " "

\* a filter that drops nothing
KeepAll(item) == TRUE

\* line 67: [item for item in word_boundaries if not " " in item['text']]
KeepItem(item) == ~HasSpace(item.text)

FilterSpaces(s) == SelectSeq(s, KeepItem)

\* descending order
GoesAfterDescending(h, r) == h.text_offset >= r.text_offset

\* ascending order, equal keys in reverse arrival order
GoesAfterStrict(h, r) == h.text_offset < r.text_offset

\* does r go after the element h that is already in the sorted prefix
GoesAfter(h, r) == h.text_offset <= r.text_offset

RECURSIVE InsertByKey(_, _)
InsertByKey(s, r) ==
  IF s = <<>> THEN <<r>>
  ELSE IF GoesAfter(Head(s), r)
    THEN <<Head(s)>> \o InsertByKey(Tail(s), r)
    ELSE <<r>> \o s

\* line 68: sorted(word_boundaries, key=lambda x: x['text_offset']), a stable
\* sort that returns a new list
RECURSIVE sorted(_)
sorted(s) ==
  IF s = <<>> THEN <<>>
  ELSE InsertByKey(sorted(SubSeq(s, 1, Len(s) - 1)), s[Len(s)])

----------------------------------------------------------------------------
(* create_speech_from_text: the steps *)

\* entry and line 25: word_boundaries = []
create_speech_from_text ==
  /\ Enter("create_speech_from_text", "az_36")
  /\ \E keys \in SUBSET AzureKeys, sdk \in BOOLEAN :
       env' = [keys |-> keys, sdk |-> sdk]
  /\ UNCHANGED <<token, authenticator, tokenSerial, configBound>>

\* lines 36-39: the name config is looked up, then called twice
speech_config ==
  /\ pc = "az_36"
  /\ IF ~configBound
       THEN /\ Raise("NameError")
            /\ configRead' = configRead
       ELSE IF "SPEECH_KEY" \notin env.keys
         THEN /\ Raise("UndefinedValueError")
              /\ configRead' = configRead \cup {"SPEECH_KEY"}
         ELSE
           /\ configRead' = configRead \cup {"SPEECH_KEY", "SERVICE_REGION"}
           /\ IF "SERVICE_REGION" \notin env.keys
                THEN Raise("UndefinedValueError")
                ELSE IF ~env.sdk
                  THEN Raise("RuntimeError")
                  ELSE /\ pc' = "az_42"
                       /\ exc' = exc
  /\ UNCHANGED <<op, entryToken, result, watsonVars, outbound, configBound,
                 azureVars>>

\* lines 42-65: voice, format, output file, ssml, synthesizer, connect
connect ==
  /\ pc = "az_42"
  /\ pc' = "az_66"
  /\ connected' = TRUE
  /\ UNCHANGED <<op, entryToken, exc, result, watsonVars, outbound, configRead,
                 configBound, env, lists, cell, ret, delivered, late>>

\* lines 27-34: the callback appends to the list the closure variable names
Callback(evt) ==
  /\ connected
  /\ Len(delivered) < MaxEvents
  /\ lists' = [lists EXCEPT ![cell] = Append(@, WordBoundary(evt))]
  /\ delivered' = Append(delivered, evt)

\* the callback, invoked by the SDK while speak_ssml (line 66) is running
speech_synthesizer_word_boundary_cb ==
  /\ pc = "az_66"
  /\ \E evt \in Events : Callback(evt)
  /\ UNCHANGED <<pc, op, entryToken, exc, result, watsonVars, outbound,
                 configRead,
                 configBound, env, cell, ret, connected, late>>

\* line 66: speak_ssml returns
speak_ssml ==
  /\ pc = "az_66"
  /\ pc' = "az_67"
  /\ UNCHANGED <<op, entryToken, exc, result, watsonVars, outbound, configRead,
                 configBound, azureVars>>

\* line 67: a new list, bound to word_boundaries
filter_step ==
  /\ pc = "az_67"
  /\ lists' = [lists EXCEPT ![2] = FilterSpaces(lists[cell])]
  /\ cell' = 2
  /\ pc' = "az_68"
  /\ UNCHANGED <<op, entryToken, exc, result, watsonVars, outbound, configRead,
                 configBound, env, ret, connected, delivered, late>>

\* line 68: a new list, bound to word_boundaries
sort_step ==
  /\ pc = "az_68"
  /\ lists' = [lists EXCEPT ![3] = sorted(lists[cell])]
  /\ cell' = 3
  /\ pc' = "az_70"
  /\ UNCHANGED <<op, entryToken, exc, result, watsonVars, outbound, configRead,
                 configBound, env, ret, connected, delivered, late>>

\* line 70: return word_boundaries; the synthesizer, a local, is released
return_step ==
  /\ pc = "az_70"
  /\ ret' = cell
  /\ result' = "list"
  /\ connected' = FALSE
  /\ pc' = "returned"
  /\ UNCHANGED <<op, entryToken, exc, watsonVars, outbound, configRead,
                 configBound,
                 env, lists, cell, delivered, late>>

\* the callback, invoked by the SDK's thread after speak_ssml has returned
\* and before the synthesizer is released
late_word_boundary_cb ==
  /\ pc \in {"az_67", "az_68", "az_70"}
  /\ \E evt \in Events : Callback(evt)
  /\ late' = late + 1
  /\ UNCHANGED <<pc, op, entryToken, exc, result, watsonVars, outbound,
                 configRead,
                 configBound, env, cell, ret, connected>>

AzureNext ==
  \/ create_speech_from_text
  \/ speech_config
  \/ connect
  \/ speech_synthesizer_word_boundary_cb
  \/ speak_ssml
  \/ filter_step
  \/ sort_step
  \/ return_step

----------------------------------------------------------------------------
(* Specifications *)

\* text_to_speech.py does not bind the name config (its import, line 1, is
\* commented out): the name resolves only when the embedding application has
\* put it into the module's namespace, so both cases are initial states
Init ==
  /\ pc = "idle"
  /\ op = ""
  /\ exc = ""
  /\ result = ""
  /\ token = NoToken
  /\ entryToken = NoToken
  /\ authenticator = NoAuthenticator
  /\ service = NoService
  /\ response = NoResponse
  /\ tokenSerial = 0
  /\ outbound = <<>>
  /\ configRead = {}
  /\ configBound \in BOOLEAN
  /\ env = NoEnv
  /\ lists = NoLists
  /\ cell = 1
  /\ ret = 0
  /\ connected = FALSE
  /\ delivered = <<>>
  /\ late = 0

Next ==
  \/ WatsonNext
  \/ AzureNext

\* the SDK delivers every event before speak_ssml returns
Spec == Init /\ [][Next]_vars

NextLate ==
  \/ WatsonNext
  \/ AzureNext
  \/ late_word_boundary_cb

\* the SDK's thread may still deliver events after speak_ssml has returned
SpecLate == Init /\ [][NextLate]_vars

----------------------------------------------------------------------------
(* Vocabulary of the properties *)

AzureReturned == op = "create_speech_from_text" /\ pc = "returned"

SttCall == op = "get_speech_to_text_result"

IsSortedByOffset(s) ==
  \A i \in 1..(Len(s) - 1) : s[i].text_offset <= s[i + 1].text_offset

NoSpaceIn(text) == \A i \in DOMAIN text : text[i] # " "

SingleWord(e) == NoSpaceIn(e.text)

\* the subsequence of s whose text_offset is k
AtOffset(s, k) == SelectSeq(s, LAMBDA x : x.text_offset = k)

Records(s) == [i \in DOMAIN s |-> WordBoundary(s[i])]

Count(kind) == Cardinality({i \in DOMAIN outbound : outbound[i].kind = kind})

RECURSIVE Gcd(_, _)
Gcd(a, b) == IF b = 0 THEN a ELSE Gcd(b, a % b)

Reduced(q) ==
  LET g == Gcd(q.num, q.den) IN [num |-> q.num \div g, den |-> q.den \div g]

SameNumber(p, q) == Reduced(p) = Reduced(q)

TicksPerSecond == 1000 * 10000

\* the configuration names the specification lists
ListedConfigNames ==
  {"NLP_KEY", "NLP_BASE_URL", "STT_API_KEY", "URL", "TTS_API_KE",
   "SPEECH_KEY", "SERVICE_REGION"}

----------------------------------------------------------------------------
(* C1: the list create_speech_from_text returns is sorted ascending by     *)
(* text_offset, whatever order the events arrived in during synthesis.     *)
C1_SortedByTextOffset == AzureReturned => IsSortedByOffset(lists[ret])

\* two single-word events arrived in descending order and were both returned
C1_Witness ==
  /\ AzureReturned
  /\ \E i, j \in DOMAIN delivered :
       /\ i < j
       /\ SingleWord(delivered[i])
       /\ SingleWord(delivered[j])
       /\ delivered[i].text_offset > delivered[j].text_offset
  /\ Len(lists[ret]) >= 2

(* C2: no record of the returned list has a text containing a space.       *)
C2_NoSpaceInResult ==
  AzureReturned => \A i \in DOMAIN lists[ret] : NoSpaceIn(lists[ret][i].text)

\* an event with a space was delivered, next to one without
C2_Witness ==
  /\ AzureReturned
  /\ \E i \in DOMAIN delivered : ~SingleWord(delivered[i])
  /\ Len(lists[ret]) >= 1

C4_TokenOfThisCall ==
  \A i \in DOMAIN outbound :
    outbound[i].kind \in {"request", "post", "client"} =>
      /\ outbound[i].token # NoToken
      /\ outbound[i].token.serial = tokenSerial
      /\ \E j \in 1..(i - 1) :
           /\ outbound[j].kind = "token"
           /\ outbound[j].target = KeyNameOf(op)
           /\ outbound[j].token = outbound[i].token

\* an operation found the token of another service in self.token and sent
\* its request
C4_Witness ==
  /\ pc = "returned"
  /\ op \in NLUOps \cup {"get_speech_to_text_result",
                         "get_text_to_speech_service"}
  /\ entryToken # NoToken
  /\ entryToken.apikey # KeyNameOf(op)
  /\ \E i \in DOMAIN outbound :
       outbound[i].kind \in {"request", "post", "client"}

(* C5, as stated: the audio_offset of every record is the event's audio    *)
(* offset in seconds, t / 10,000,000 for t ticks of 100 ns.                *)
C5_AudioOffsetInSeconds ==
  pc = "az_66" =>
    \A i \in DOMAIN lists[cell] :
      SameNumber(lists[cell][i].audio_offset,
                 [num |-> delivered[i].audio_offset, den |-> TicksPerSecond])

(* C6, as stated: every configuration name read is one of NLP_KEY,         *)
(* NLP_BASE_URL, STT_API_KEY, URL, TTS_API_KE, SPEECH_KEY, SERVICE_REGION. *)
C6_OnlyListedNames == configRead \subseteq ListedConfigNames

(* C6, amended: every configuration name read is one of the listed names   *)
(* or TTS_BASE_URL.                                                        *)
C6_ListedOrTtsBaseUrl ==
  configRead \subseteq (ListedConfigNames \cup {"TTS_BASE_URL"})

\* get_text_to_speech_service has read both of its names and returned
C6_Witness ==
  /\ op = "get_text_to_speech_service"
  /\ pc = "returned"
  /\ configRead = {"TTS_API_KE", "TTS_BASE_URL"}

(* C7: one call of get_speech_to_text_result fetches a token at most once  *)
(* and posts at most once; once a response has arrived, whatever its       *)
(* status, exactly one token fetch and one POST have been made, and the    *)
(* same holds when the call returns.                                       *)
C7_NoRetry ==
  SttCall =>
    /\ Count("token") <= 1
    /\ Count("post") <= 1
    /\ (response # NoResponse \/ pc = "returned") =>
          (Count("token") = 1 /\ Count("post") = 1)

\* the call returned after a server error
C7_Witness ==
  /\ SttCall
  /\ pc = "returned"
  /\ response.status_code = 500
  /\ Count("post") = 1

(* C8, as stated: with SPEECH_KEY and SERVICE_REGION in the configuration  *)
(* store and the SDK working, create_speech_from_text does not end in an   *)
(* error before synthesis starts.                                          *)
C8_ReachesSynthesis ==
  ~ /\ op = "create_speech_from_text"
    /\ pc = "raised"
    /\ env.keys = AzureKeys
    /\ env.sdk
    /\ ~connected

(* C9: the returned list holds exactly the delivered events whose text has *)
(* no space, each once (equal events kept apart), and among records of     *)
(* equal text_offset the arrival order is kept.                            *)
C9_StablePermutation ==
  AzureReturned =>
    /\ Len(lists[ret]) = Len(SelectSeq(delivered, SingleWord))
    /\ \A k \in 0..MaxOffset :
         AtOffset(lists[ret], k)
           = Records(AtOffset(SelectSeq(delivered, SingleWord), k))

\* two different single-word events with the same text_offset were delivered
C9_Witness ==
  /\ AzureReturned
  /\ \E i, j \in DOMAIN delivered :
       /\ i < j
       /\ SingleWord(delivered[i])
       /\ SingleWord(delivered[j])
       /\ delivered[i].text_offset = delivered[j].text_offset
       /\ delivered[i] # delivered[j]

(* C10, as stated: with callbacks that the SDK's thread delivers after     *)
(* speak_ssml has returned, the list the caller holds is sorted by         *)
(* text_offset and has no record whose text contains a space.              *)
C10_LateCallbackHarmless ==
  AzureReturned =>
    /\ IsSortedByOffset(lists[ret])
    /\ \A i \in DOMAIN lists[ret] : NoSpaceIn(lists[ret][i].text)

====
